---- MODULE Spec2Model ----
(***************************************************************************)
(* Model of bot/utils/embed_flag_input.py: the validators (UrlValidator,   *)
(* colortype), process_message_mentions, the FlagAdder registry, and the   *)
(* two assemblers dict_to_embed and dict_to_allowed_mentions.              *)
(*                                                                         *)
(* Python strings that the code inspects character by character are        *)
(* sequences of one-character strings; opaque strings are TLA+ strings.    *)
(***************************************************************************)
EXTENDS Integers, Sequences, FiniteSets, TLC

VARIABLES
    colorIn, colorOut,                \* colortype: argument and outcome
    adder, kwargs, target, callRet,   \* FlagAdder: instance, selectors, target, outcome
    msgIn, msgOut, msgDone,           \* process_message_mentions: argument and result
    validator, urlIn, urlOut,         \* UrlValidator: https_only, argument, outcome
    data0, data, author,              \* the parsed flags as handed over and as they are now; the invoker
    embedOut, mentionsOut, calls      \* outcomes of the two assemblers; which ran, in order

vars == <<colorIn, colorOut, adder, kwargs, target, callRet, msgIn, msgOut, msgDone,
          validator, urlIn, urlOut, data0, data, author, embedOut, mentionsOut, calls>>

colourVars == <<colorIn, colorOut>>
adderVars == <<adder, kwargs, target, callRet>>
msgVars == <<msgIn, msgOut, msgDone>>
urlVars == <<validator, urlIn, urlOut>>
asmVars == <<data0, data, author, embedOut, mentionsOut, calls>>

\* ------------------------------------------------------------------ bounds
MaxColourLen == 3
MaxDigits == 19     \* longest digit run after role: / user:
MaxPieces == 2      \* pieces a message is put together from
MaxFields == 3      \* longest --fields list

\* --------------------------------------------------------- string helpers
RECURSIVE StringsUpTo(_, _)
StringsUpTo(alphabet, n) ==
    IF n = 0 THEN {<<>>}
    ELSE LET shorter == StringsUpTo(alphabet, n - 1)
         IN  shorter \cup {Append(s, c) : s \in {t \in shorter : Len(t) = n - 1}, c \in alphabet}

StartsWith(s, p) == Len(s) >= Len(p) /\ SubSeq(s, 1, Len(p)) = p

Drop(s, n) == SubSeq(s, n + 1, Len(s))

\* str.removeprefix(p): removes p once when s starts with it
RemovePrefix(s, p) == IF StartsWith(s, p) THEN Drop(s, Len(p)) ELSE s

IsSpace(c) == c \in {" "}

RECURSIVE LStrip(_)
LStrip(s) == IF s # <<>> /\ IsSpace(s[1]) THEN LStrip(Tail(s)) ELSE s

RECURSIVE RStrip(_)
RStrip(s) == IF s # <<>> /\ IsSpace(s[Len(s)]) THEN RStrip(SubSeq(s, 1, Len(s) - 1)) ELSE s

\* ---------------------------------------------------------- UrlValidator
Lowercase == <<"a", "b", "c", "d", "e", "f", "g", "h", "i", "j", "k", "l", "m",
               "n", "o", "p", "q", "r", "s", "t", "u", "v", "w", "x", "y", "z">>
Uppercase == <<"A", "B", "C", "D", "E", "F", "G", "H", "I", "J", "K", "L", "M",
               "N", "O", "P", "Q", "R", "S", "T", "U", "V", "W", "X", "Y", "Z">>

Letters == {Lowercase[i] : i \in 1..26} \cup {Uppercase[i] : i \in 1..26}

SchemeChars ==
    Letters \cup {"0", "1", "2", "3", "4", "5", "6", "7", "8", "9"} \cup {"+", "-", "."}

ToLower(c) ==
    IF \E i \in 1..26 : Uppercase[i] = c
    THEN Lowercase[CHOOSE i \in 1..26 : Uppercase[i] = c]
    ELSE c

Lower(s) == [i \in 1..Len(s) |-> ToLower(s[i])]

\* str.find: the first index (from 1) of a character of cs in s, 0 when none
FirstOf(s, cs) ==
    IF \E i \in 1..Len(s) : s[i] \in cs
    THEN CHOOSE i \in 1..Len(s) : s[i] \in cs /\ \A j \in 1..(i - 1) : s[j] \notin cs
    ELSE 0

LastOf(s, cs) ==
    IF \E i \in 1..Len(s) : s[i] \in cs
    THEN CHOOSE i \in 1..Len(s) : s[i] \in cs /\ \A j \in (i + 1)..Len(s) : s[j] \notin cs
    ELSE 0

\* the part of s before the first character of cs (all of s when none)
Before(s, cs) == IF FirstOf(s, cs) = 0 THEN s ELSE SubSeq(s, 1, FirstOf(s, cs) - 1)

Has(s, c) == \E i \in 1..Len(s) : s[i] = c

\* urlparse(value), as far as scheme and hostname go: the scheme is what
\* precedes the first ':' when that is a letter followed by scheme
\* characters, lowercased; the netloc follows a leading '//' up to the
\* first of '/?#'; a netloc with one bracket but not the other raises
\* ValueError; the hostname is the netloc after its last '@', up to ':'
\* (or between the brackets), lowercased.
urlparse(value) ==
    LET colon     == FirstOf(value, {":"})
        hasScheme == /\ colon > 1
                     /\ value[1] \in Letters
                     /\ \A i \in 1..(colon - 1) : value[i] \in SchemeChars
        scheme    == IF hasScheme THEN Lower(SubSeq(value, 1, colon - 1)) ELSE <<>>
        rest      == IF hasScheme THEN Drop(value, colon) ELSE value
        netloc    == IF StartsWith(rest, <<"/", "/">>)
                     THEN Before(Drop(rest, 2), {"/", "?", "#"})
                     ELSE <<>>
        hostinfo  == Drop(netloc, LastOf(netloc, {"@"}))
        hostname  == IF Has(hostinfo, "[")
                     THEN Before(Drop(hostinfo, FirstOf(hostinfo, {"["})), {"]"})
                     ELSE Before(hostinfo, {":"})
    IN  IF Has(netloc, "[") # Has(netloc, "]")
        THEN [kind |-> "ValueError"]
        ELSE [kind |-> "ParseResult", scheme |-> scheme, hostname |-> Lower(hostname)]

https == <<"h", "t", "t", "p", "s">>
http == <<"h", "t", "t", "p">>

\* UrlValidator.__call__: the value itself, InvalidUrl(value, https_only),
\* or whatever urlparse raised
UrlValidator(https_only, value) ==
    LET url     == urlparse(value)
        schemes == IF https_only THEN {https} ELSE {http, https}
    IN  IF url.kind = "ValueError" THEN [kind |-> "ValueError"]
        ELSE IF url.scheme \notin schemes \/ url.hostname = <<>>
        THEN [kind |-> "InvalidUrl", invalid_url |-> value, https_only |-> https_only]
        ELSE [kind |-> "value", value |-> value]

\* url_type = UrlValidator(https_only=True) is the validator of every url flag
url_type(value) == UrlValidator(TRUE, value)

\* values: a scheme part, a separator, a netloc part and a path part
SchemeParts == {https, http, <<"H", "T", "T", "P">>, <<"f", "t", "p">>, <<"1", "a">>, <<>>}
SeparatorParts == {<<":", "/", "/">>, <<":", "/">>, <<":">>, <<"/", "/">>, <<>>}
NetlocParts ==
    {<<"h", ".", "c">>, <<"H">>, <<"u", "@", "h">>, <<"u", "@">>, <<"h", ":", "8", "0">>,
     <<":", "8", "0">>, <<"[">>, <<"[", ":", ":", "1", "]">>, <<>>}
PathParts == {<<>>, <<"/", "p">>, <<"?", "q">>}

UrlInputs ==
    {a \o b \o c \o d : a \in SchemeParts, b \in SeparatorParts, c \in NetlocParts, d \in PathParts}

CallUrlValidator ==
    /\ urlOut.kind = "idle"
    /\ urlOut' = UrlValidator(validator, urlIn)
    /\ UNCHANGED <<validator, urlIn>>

\* ------------------------------------------------------------- colortype
HexDigits == {"0", "f", "A"}

HexDigitValue(c) == CASE c = "0" -> 0 [] c = "f" -> 15 [] c = "A" -> 10

\* the digit part int() accepts: hex digits, single underscores only
\* between two digits
RECURSIVE DigitsWellFormed(_)
DigitsWellFormed(s) ==
    /\ s # <<>>
    /\ s[1] \in HexDigits
    /\ \/ Len(s) = 1
       \/ s[2] = "_" /\ DigitsWellFormed(Drop(s, 2))
       \/ s[2] # "_" /\ DigitsWellFormed(Tail(s))

RECURSIVE DigitsValue(_, _)
DigitsValue(s, acc) ==
    IF s = <<>> THEN acc
    ELSE IF s[1] = "_" THEN DigitsValue(Tail(s), acc)
    ELSE DigitsValue(Tail(s), 16 * acc + HexDigitValue(s[1]))

\* int(text, base=16): surrounding whitespace is stripped, one sign is
\* allowed, then an optional 0x/0X prefix (one underscore may follow it),
\* then the digits.  The result is the value, or ValueError.
IntBase16(text) ==
    LET stripped == RStrip(LStrip(text))
        signed   == stripped # <<>> /\ stripped[1] \in {"-", "+"}
        negative == stripped # <<>> /\ stripped[1] = "-"
        unsigned == IF signed THEN Tail(stripped) ELSE stripped
        prefixed == Len(unsigned) >= 2 /\ unsigned[1] = "0" /\ unsigned[2] \in {"x", "X"}
        afterPfx == IF prefixed THEN Drop(unsigned, 2) ELSE unsigned
        digits   == IF prefixed /\ afterPfx # <<>> /\ afterPfx[1] = "_"
                    THEN Tail(afterPfx) ELSE afterPfx
    IN  IF DigitsWellFormed(digits)
        THEN [kind |-> "int",
              int |-> IF negative THEN 0 - DigitsValue(digits, 0) ELSE DigitsValue(digits, 0)]
        ELSE [kind |-> "ValueError"]

colortype(value) ==
    LET parsed == IntBase16(RemovePrefix(value, <<"#">>))
    IN  IF parsed.kind = "ValueError"
        THEN [kind |-> "InvalidColor", arg |-> value]
        ELSE parsed

ColourAlphabet == {"#", "f", "A", "0", "x", "-", "+", " ", "_"}

ColourInputs == StringsUpTo(ColourAlphabet, MaxColourLen)

\* the flag parser hands the raw --colour argument to colortype
CallColortype ==
    /\ colorOut.kind = "idle"
    /\ colorOut' = colortype(colorIn)
    /\ UNCHANGED colorIn

\* ----------------------------------------------- process_message_mentions
IdLen == 18

Digits == {"0", "1", "2", "3", "4", "5", "6", "7", "8", "9"}

role == <<"r", "o", "l", "e">>
user == <<"u", "s", "e", "r">>
mention == <<"m", "e", "n", "t", "i", "o", "n">>
ping == <<"p", "i", "n", "g">>
everyone == <<"e", "v", "e", "r", "y", "o", "n", "e">>
here == <<"h", "e", "r", "e">>

\* str.replace(old, new): every non-overlapping occurrence, left to right
RECURSIVE Replace(_, _, _)
Replace(s, old, new) ==
    IF Len(s) < Len(old) THEN s
    ELSE IF StartsWith(s, old) THEN new \o Replace(Drop(s, Len(old)), old, new)
    ELSE <<Head(s)>> \o Replace(Tail(s), old, new)

\* (role|user):(\d{18}) matched at the start of s
MatchesAt(s, type) ==
    /\ StartsWith(s, type \o <<":">>)
    /\ Len(s) >= Len(type) + 1 + IdLen
    /\ \A i \in 1..IdLen : s[Len(type) + 1 + i] \in Digits

\* re.findall: the (type, id) groups of the non-overlapping matches, left to right
RECURSIVE FindAll(_)
FindAll(s) ==
    IF s = <<>> THEN <<>>
    ELSE IF \E type \in {role, user} : MatchesAt(s, type)
    THEN LET type == CHOOSE t \in {role, user} : MatchesAt(s, t)
             id   == SubSeq(s, Len(type) + 2, Len(type) + 1 + IdLen)
         IN  <<[type |-> type, id |-> id]>> \o FindAll(Drop(s, Len(type) + 1 + IdLen))
    ELSE FindAll(Tail(s))

\* the first loop: one replace per match found in the original message
RECURSIVE ReplaceMatches(_, _)
ReplaceMatches(message, matches) ==
    IF matches = <<>> THEN message
    ELSE LET m == Head(matches)
             markup == IF m.type = user
                       THEN <<"<", "@", "!">> \o m.id \o <<">">>
                       ELSE <<"<", "@", "&">> \o m.id \o <<">">>
         IN  ReplaceMatches(Replace(message, m.type \o <<":">> \o m.id, markup), Tail(matches))

\* the second loop: label in (mention, ping), role in (everyone, here)
LabelPairs == <<<<mention, everyone>>, <<mention, here>>, <<ping, everyone>>, <<ping, here>>>>

RECURSIVE ReplaceLabels(_, _)
ReplaceLabels(message, pairs) ==
    IF pairs = <<>> THEN message
    ELSE ReplaceLabels(Replace(message, Head(pairs)[1] \o <<":">> \o Head(pairs)[2],
                               <<"@">> \o Head(pairs)[2]),
                       Tail(pairs))

process_message_mentions(message) ==
    IF message = <<>> THEN <<>>
    ELSE ReplaceLabels(ReplaceMatches(message, FindAll(message)), LabelPairs)

\* messages: up to MaxPieces pieces, a piece being role:/user: followed by
\* a digit run, a label token, or a blank
DigitCycle == <<"1", "2", "3", "4", "5", "6", "7", "8", "9", "0">>

DigitRun(n) == [i \in 1..n |-> DigitCycle[((i - 1) % 10) + 1]]

RunLengths == {1} \cup ((IdLen - 1)..MaxDigits)

Pieces ==
    {type \o <<":">> \o DigitRun(n) : type \in {role, user}, n \in RunLengths}
    \cup {label \o <<":">> \o who : label \in {mention, ping}, who \in {everyone, here}}
    \cup {<<" ">>}

RECURSIVE Messages(_)
Messages(n) ==
    IF n = 0 THEN {<<>>}
    ELSE Messages(n - 1) \cup {m \o p : m \in Messages(n - 1), p \in Pieces}

CallProcessMessageMentions ==
    /\ ~msgDone
    /\ msgOut' = process_message_mentions(msgIn)
    /\ msgDone' = TRUE
    /\ UNCHANGED msgIn

\* -------------------------------------------------------------- FlagAdder
\* A FlagAdder holds kwarg_map (groups is its key order, a dict keeps
\* insertion order) and default_mode.  A flag declaration is named by its
\* first option string; invoking it against the target registers it there,
\* so the target is the sequence of declarations invoked against it.
embed_input ==
    [groups |-> <<"basic", "image", "author", "footer">>,
     kwarg_map |-> [basic  |-> <<"--title", "--description", "--fields", "--colour">>,
                    image  |-> <<"--thumbnail", "--image">>,
                    author |-> <<"--authorname", "--autoauthor", "--authorurl", "--authoricon">>,
                    footer |-> <<"--footericon", "--footertext">>],
     default_mode |-> FALSE]

allowed_mentions_input ==
    [groups |-> <<"all">>,
     kwarg_map |-> [all |-> <<"--everyonemention", "--rolementions", "--usermentions">>],
     default_mode |-> TRUE]

Adders == [embed_input |-> embed_input, allowed_mentions_input |-> allowed_mentions_input]

\* FlagAdder.apply: every declaration of flags is invoked against func, in order
RECURSIVE apply(_, _)
apply(flags, func) ==
    IF flags = <<>> THEN func
    ELSE apply(Tail(flags), Append(func, Head(flags)))

\* the loop of call over kwarg_map.values()
RECURSIVE ApplyAll(_, _, _)
ApplyAll(self, groups, func) ==
    IF groups = <<>> THEN func
    ELSE ApplyAll(self, Tail(groups), apply(self.kwarg_map[Head(groups)], func))

\* the loop of call over the merged selectors; a true selector that names
\* no group stops it with KeyError
RECURSIVE ApplySelected(_, _, _, _)
ApplySelected(self, keys, merged, func) ==
    IF keys = <<>> THEN [kind |-> "func", func |-> func]
    ELSE IF ~merged[Head(keys)] THEN ApplySelected(self, Tail(keys), merged, func)
    ELSE IF Head(keys) \notin DOMAIN self.kwarg_map THEN [kind |-> "KeyError", func |-> func]
    ELSE ApplySelected(self, Tail(keys), merged,
                       apply(self.kwarg_map[Head(keys)], func))

SeqRange(s) == {s[i] : i \in 1..Len(s)}

\* the key order of {**defaults, **kwargs}: the groups, then the other
\* selectors passed (at most one here, so their order is immaterial)
MergedKeys(self, rest) ==
    LET others == DOMAIN rest \ SeqRange(self.groups)
    IN  IF others = {} THEN self.groups
        ELSE self.groups \o <<CHOOSE k \in others : TRUE>>

\* call as it would be if all=True only changed the default of the
\* selectors not passed, instead of returning after activating every group
callAllAsDefault(self, func, kw) ==
    LET popped == IF "all" \in DOMAIN kw THEN kw["all"] ELSE FALSE
        rest   == [k \in DOMAIN kw \ {"all"} |-> kw[k]]
        merged == [k \in SeqRange(self.groups) \cup DOMAIN rest |->
                       IF k \in DOMAIN rest THEN rest[k] ELSE popped \/ self.default_mode]
    IN  ApplySelected(self, MergedKeys(self, rest), merged, func)

\* FlagAdder.call(func, **kw): the outcome and the target afterwards
call(self, func, kw) ==
    LET popped == IF "all" \in DOMAIN kw THEN kw["all"] ELSE FALSE
        rest   == [k \in DOMAIN kw \ {"all"} |-> kw[k]]
        merged == [k \in SeqRange(self.groups) \cup DOMAIN rest |->
                       IF k \in DOMAIN rest THEN rest[k] ELSE self.default_mode]
    IN  IF popped
        THEN [kind |-> "func", func |-> ApplyAll(self, self.groups, func)]
        ELSE ApplySelected(self, MergedKeys(self, rest), merged, func)

\* selector names a caller may pass: the groups, the special "all", and
\* one name that is no group
Selectors(self) == SeqRange(self.groups) \cup {"all", "other"}

KwargsOf(self) ==
    UNION {[names -> BOOLEAN] : names \in SUBSET Selectors(self)}

\* FlagAdder.__call__ decorating a fresh target, directly or through the partial
FlagAdderCall ==
    /\ callRet = "idle"
    /\ LET outcome == call(Adders[adder], target, kwargs)
       IN  /\ target' = outcome.func
           /\ callRet' = outcome.kind
    /\ UNCHANGED <<adder, kwargs>>

\* ------------------------------------------------------------ assemblers
\* Python values of the parsed-flag mapping, tagged with their type.
None == [t |-> "None"]
Str(s) == [t |-> "str", v |-> s]
PyInt(n) == [t |-> "int", v |-> n]
Bool(b) == [t |-> "bool", v |-> b]
List(q) == [t |-> "list", v |-> q]

\* truth value of a Python value, as `if value` tests it
Truthy(x) ==
    CASE x.t = "None" -> FALSE
      [] x.t = "str"  -> x.v # ""
      [] x.t = "int"  -> x.v # 0
      [] x.t = "bool" -> x.v
      [] x.t = "list" -> x.v # <<>>
      [] OTHER        -> TRUE

\* dicts are functions on their key set
EmptyDict == [k \in {} |-> None]
Put(d, k, v) == [x \in DOMAIN d \cup {k} |-> IF x = k THEN v ELSE d[x]]
Remove(d, k) == [x \in DOMAIN d \ {k} |-> d[x]]
\* the value of data.pop(k, None)
Get(d, k) == IF k \in DOMAIN d THEN d[k] ELSE None

\* Embed.set_author / set_footer / set_thumbnail / set_image replace the
\* whole block by the keyword arguments given
set_author(embed, block) == Put(embed, "author", block)
set_footer(embed, block) == Put(embed, "footer", block)
add_field(embed, name, value) ==
    Put(embed, "fields",
        Append(IF "fields" \in DOMAIN embed THEN embed["fields"] ELSE <<>>,
               [name |-> name, value |-> value]))

\* for field in ("title", "description", "colour"): set when truthy
RECURSIVE SetAttributes(_, _, _)
SetAttributes(embed, d, names) ==
    IF names = <<>> THEN embed
    ELSE SetAttributes(IF Truthy(Get(d, Head(names)))
                       THEN Put(embed, Head(names), Get(d, Head(names)))
                       ELSE embed,
                       d, Tail(names))

\* for field in "thumbnail", "image": set_<field>(url=value) when truthy
RECURSIVE SetMedia(_, _, _)
SetMedia(embed, d, names) ==
    IF names = <<>> THEN embed
    ELSE SetMedia(IF Truthy(Get(d, Head(names)))
                  THEN Put(embed, Head(names), [url |-> Get(d, Head(names)).v])
                  ELSE embed,
                  d, Tail(names))

RECURSIVE RemoveAll(_, _)
RemoveAll(d, names) ==
    IF names = <<>> THEN d ELSE RemoveAll(Remove(d, Head(names)), Tail(names))

\* zip(fields[::2], fields[1::2]) handed to add_field, in order
RECURSIVE AddFields(_, _)
AddFields(embed, fields) ==
    IF Len(fields) < 2 THEN embed
    ELSE AddFields(add_field(embed, fields[1], fields[2]), Drop(fields, 2))

\* the author step as it would be with `elif` for the authorname branch
AuthorStepExclusive(embed, d, who, autoauthor) ==
    LET icon == Get(d, "authoricon")
        url  == Get(d, "authorurl")
        kw1  == IF Truthy(icon) THEN Put(EmptyDict, "icon_url", icon.v) ELSE EmptyDict
        kw2  == IF Truthy(url) THEN Put(kw1, "url", url.v) ELSE kw1
    IN  IF Truthy(autoauthor) /\ who.t # "None"
        THEN [embed |-> set_author(embed, [name |-> who.display_name,
                                           icon_url |-> who.avatar_url]),
              data |-> d]
        ELSE IF "authorname" \in DOMAIN d /\ Truthy(d["authorname"])
        THEN [embed |-> set_author(embed, Put(kw2, "name", d["authorname"].v)),
              data |-> RemoveAll(d, <<"authoricon", "authorurl", "authorname">>)]
        ELSE [embed |-> embed, data |-> d]

\* the author and footer steps: the embed and the mapping after them
AuthorStep(embed, d, who, autoauthor) ==
    LET auto == IF Truthy(autoauthor) /\ who.t # "None"
                THEN set_author(embed, [name |-> who.display_name, icon_url |-> who.avatar_url])
                ELSE embed
        icon == Get(d, "authoricon")
        url  == Get(d, "authorurl")
        kw1  == IF Truthy(icon) THEN Put(EmptyDict, "icon_url", icon.v) ELSE EmptyDict
        kw2  == IF Truthy(url) THEN Put(kw1, "url", url.v) ELSE kw1
    IN  IF "authorname" \in DOMAIN d /\ Truthy(d["authorname"])
        THEN [embed |-> set_author(auto, Put(kw2, "name", d["authorname"].v)),
              data |-> RemoveAll(d, <<"authoricon", "authorurl", "authorname">>)]
        ELSE [embed |-> auto, data |-> d]

FooterStep(embed, d) ==
    LET icon == Get(d, "footericon")
        kw   == IF Truthy(icon) THEN Put(EmptyDict, "icon_url", icon.v) ELSE EmptyDict
    IN  IF "footertext" \in DOMAIN d /\ Truthy(d["footertext"])
        THEN [embed |-> set_footer(embed, Put(kw, "text", d["footertext"].v)),
              data |-> RemoveAll(d, <<"footericon", "footertext">>)]
        ELSE [embed |-> embed, data |-> d]

\* dict_to_embed(data, author): the outcome (an embed or the exception
\* raised) and the mapping as the call leaves it
dict_to_embed(d, who) ==
    LET e1 == SetAttributes(EmptyDict, d, <<"title", "description", "colour">>)
        d1 == RemoveAll(d, <<"title", "description", "colour">>)
        e2 == SetMedia(e1, d1, <<"thumbnail", "image">>)
        d2 == RemoveAll(d1, <<"thumbnail", "image">>)
    IN  IF "autoauthor" \notin DOMAIN d2
        THEN [kind |-> "KeyError", key |-> "autoauthor", data |-> d2]
        ELSE
    LET a  == AuthorStep(e2, Remove(d2, "autoauthor"), who, d2["autoauthor"])
        f  == FooterStep(a.embed, a.data)
    IN  IF "fields" \notin DOMAIN f.data
        THEN [kind |-> "KeyError", key |-> "fields", data |-> f.data]
        ELSE
    LET d6     == Remove(f.data, "fields")
        fields == IF Truthy(f.data["fields"]) THEN f.data["fields"].v ELSE <<>>
        e7     == AddFields(f.embed, fields)
    IN  IF Len(fields) % 2 = 1 THEN [kind |-> "InvalidFieldArgs", data |-> d6]
        ELSE IF e7 = EmptyDict THEN [kind |-> "EmbeyEmbedError", data |-> d6]
        ELSE [kind |-> "Embed", embed |-> e7, data |-> d6]

\* dict_to_allowed_mentions as it would be with roles and users taken from
\* each other's flag
dict_to_allowed_mentions_swapped(d) ==
    IF {"everyonemention", "rolementions", "usermentions"} \subseteq DOMAIN d
    THEN [kind |-> "AllowedMentions",
          everyone |-> d["everyonemention"], roles |-> d["usermentions"],
          users |-> d["rolementions"],
          data |-> RemoveAll(d, <<"everyonemention", "rolementions", "usermentions">>)]
    ELSE [kind |-> "KeyError", key |-> "everyonemention", data |-> d]

\* dict_to_allowed_mentions(data): the three pops happen in argument order,
\* the first missing key raises KeyError
dict_to_allowed_mentions(d) ==
    IF "everyonemention" \notin DOMAIN d
    THEN [kind |-> "KeyError", key |-> "everyonemention", data |-> d]
    ELSE IF "rolementions" \notin DOMAIN d
    THEN [kind |-> "KeyError", key |-> "rolementions", data |-> Remove(d, "everyonemention")]
    ELSE IF "usermentions" \notin DOMAIN d
    THEN [kind |-> "KeyError", key |-> "usermentions",
          data |-> RemoveAll(d, <<"everyonemention", "rolementions">>)]
    ELSE [kind |-> "AllowedMentions",
          everyone |-> d["everyonemention"], roles |-> d["rolementions"],
          users |-> d["usermentions"],
          data |-> RemoveAll(d, <<"everyonemention", "rolementions", "usermentions">>)]

Outcome(r) == [k \in DOMAIN r \ {"data"} |-> r[k]]

\* the command hands the parsed flags to dict_to_embed
CallDictToEmbed ==
    /\ embedOut.kind = "idle"
    /\ LET r == dict_to_embed(data, author)
       IN  /\ embedOut' = Outcome(r)
           /\ data' = r.data
    /\ calls' = Append(calls, "dict_to_embed")
    /\ UNCHANGED <<data0, author, mentionsOut>>

\* the command hands the parsed flags to dict_to_allowed_mentions
CallDictToAllowedMentions ==
    /\ mentionsOut.kind = "idle"
    /\ LET r == dict_to_allowed_mentions(data)
       IN  /\ mentionsOut' = Outcome(r)
           /\ data' = r.data
    /\ calls' = Append(calls, "dict_to_allowed_mentions")
    /\ UNCHANGED <<data0, author, embedOut>>

\* ---- the parsed-flag mappings handed to the assemblers
Absent == [t |-> "absent"]

FieldNames == <<"n1", "v1", "n2", "v2", "n3", "v3">>

FieldLists == {List(SubSeq(FieldNames, 1, n)) : n \in 0..MaxFields}

Url == Str("https://h.c/i.png")

EmbedOptions ==
    [title       |-> {Absent, Str(""), Str("Hi")},
     description |-> {Absent, Str("D")},
     colour      |-> {Absent, PyInt(0), PyInt(255)},
     thumbnail   |-> {Absent, Url},
     image       |-> {Absent, Url},
     autoauthor  |-> {Absent, Bool(FALSE), Bool(TRUE)},
     authorname  |-> {Absent, Str(""), Str("A")},
     authoricon  |-> {Absent, Url},
     authorurl   |-> {Absent, Url},
     footertext  |-> {Absent, None, Str("F")},
     footericon  |-> {Absent, Url},
     fields      |-> {Absent, None} \cup FieldLists]

\* every mapping that gives each key one of its options (Absent: no such key)
RECURSIVE MappingsFrom(_, _)
MappingsFrom(options, keys) ==
    IF keys = <<>> THEN {EmptyDict}
    ELSE {IF v = Absent THEN m ELSE Put(m, Head(keys), v) :
              m \in MappingsFrom(options, Tail(keys)), v \in options[Head(keys)]}

Merge(d, e) == [k \in DOMAIN d \cup DOMAIN e |-> IF k \in DOMAIN e THEN e[k] ELSE d[k]]

\* a smaller choice of embed flags, and every choice of the mention flags
FewEmbedOptions ==
    [title       |-> {Absent, Str("Hi")},
     description |-> {Absent},
     colour      |-> {Absent},
     thumbnail   |-> {Absent, Url},
     image       |-> {Absent},
     autoauthor  |-> {Absent, Bool(FALSE), Bool(TRUE)},
     authorname  |-> {Absent, Str("A")},
     authoricon  |-> {Absent},
     authorurl   |-> {Absent},
     footertext  |-> {Absent, Str("F")},
     footericon  |-> {Absent},
     fields      |-> {Absent, None} \cup FieldLists]

MentionOptions ==
    [everyonemention |-> {Absent, Bool(FALSE), Bool(TRUE)},
     rolementions    |-> {Absent, Bool(FALSE), Bool(TRUE)},
     usermentions    |-> {Absent, Bool(FALSE), Bool(TRUE)}]

EmbedKeys ==
    <<"title", "description", "colour", "thumbnail", "image", "autoauthor", "authorname",
      "authoricon", "authorurl", "footertext", "footericon", "fields">>

MentionKeys == <<"everyonemention", "rolementions", "usermentions">>

Authors == {None, [t |-> "Member", display_name |-> "Nick", avatar_url |-> "https://cdn/nick.png"]}

\* ------------------------------------------------------------------ model
\* Nothing has been called yet.
IdleColour == colorIn = <<>> /\ colorOut = [kind |-> "idle"]

IdleAdder ==
    /\ adder = "embed_input"
    /\ kwargs = <<>>
    /\ target = <<>>
    /\ callRet = "idle"

IdleMsg == msgIn = <<>> /\ msgOut = <<>> /\ msgDone = FALSE

IdleUrl == validator = TRUE /\ urlIn = <<>> /\ urlOut = [kind |-> "idle"]

NotCalled ==
    /\ data = data0
    /\ embedOut = [kind |-> "idle"]
    /\ mentionsOut = [kind |-> "idle"]
    /\ calls = <<>>

IdleAsm == data0 = EmptyDict /\ author = None /\ NotCalled

\* one raw --colour argument
InitColour ==
    /\ colorIn \in ColourInputs
    /\ colorOut = [kind |-> "idle"]
    /\ IdleAdder /\ IdleMsg /\ IdleUrl /\ IdleAsm

\* one decoration: a FlagAdder, the selectors passed, a fresh target
InitAdder ==
    /\ adder \in DOMAIN Adders
    /\ kwargs \in KwargsOf(Adders[adder])
    /\ target = <<>>
    /\ callRet = "idle"
    /\ IdleColour /\ IdleMsg /\ IdleUrl /\ IdleAsm

\* one message text
InitMsg ==
    /\ msgIn \in Messages(MaxPieces)
    /\ msgOut = <<>>
    /\ msgDone = FALSE
    /\ IdleColour /\ IdleAdder /\ IdleUrl /\ IdleAsm

\* one validator (https-only or not) and one raw url argument
InitUrl ==
    /\ validator \in BOOLEAN
    /\ urlIn \in UrlInputs
    /\ urlOut = [kind |-> "idle"]
    /\ IdleColour /\ IdleAdder /\ IdleMsg /\ IdleAsm

\* one invocation of a command that takes embed flags only: the mapping
\* handed to dict_to_embed, the invoking member or none
InitEmbed ==
    /\ data0 \in MappingsFrom(EmbedOptions, EmbedKeys)
    /\ author \in Authors
    /\ NotCalled
    /\ IdleColour /\ IdleAdder /\ IdleMsg /\ IdleUrl

\* one command invocation that takes both embed and mention flags
InitAssemble ==
    /\ data0 \in {Merge(m, e) : m \in MappingsFrom(MentionOptions, MentionKeys),
                                 e \in MappingsFrom(FewEmbedOptions, EmbedKeys)}
    /\ author \in Authors
    /\ NotCalled
    /\ IdleColour /\ IdleAdder /\ IdleMsg /\ IdleUrl

Init == InitColour \/ InitAdder \/ InitMsg \/ InitUrl \/ InitEmbed \/ InitAssemble

NextColour == CallColortype /\ UNCHANGED <<adderVars, msgVars, urlVars, asmVars>>

NextAdder == FlagAdderCall /\ UNCHANGED <<colourVars, msgVars, urlVars, asmVars>>

NextMsg == CallProcessMessageMentions /\ UNCHANGED <<colourVars, adderVars, urlVars, asmVars>>

NextUrl == CallUrlValidator /\ UNCHANGED <<colourVars, adderVars, msgVars, asmVars>>

NextEmbed == CallDictToEmbed /\ UNCHANGED <<colourVars, adderVars, msgVars, urlVars>>

NextAssemble ==
    \/ CallDictToEmbed /\ UNCHANGED <<colourVars, adderVars, msgVars, urlVars>>
    \/ CallDictToAllowedMentions /\ UNCHANGED <<colourVars, adderVars, msgVars, urlVars>>

Next == NextColour \/ NextAdder \/ NextMsg \/ NextUrl \/ NextAssemble

SpecColour == InitColour /\ [][NextColour]_vars

SpecAdder == InitAdder /\ [][NextAdder]_vars

SpecMsg == InitMsg /\ [][NextMsg]_vars

SpecUrl == InitUrl /\ [][NextUrl]_vars

SpecEmbed == InitEmbed /\ [][NextEmbed]_vars

SpecAssemble == InitAssemble /\ [][NextAssemble]_vars

Spec == Init /\ [][Next]_vars

\* ----------------------------------------------------------------- claims
\* the pattern ^#?[0-9a-fA-F]+$ of the colour property
MatchesHexPattern(s) ==
    LET body == IF s # <<>> /\ s[1] = "#" THEN Tail(s) ELSE s
    IN  body # <<>> /\ \A i \in 1..Len(body) : body[i] \in HexDigits

\* C7: colortype(s) returns an integer exactly when s matches
\* ^#?[0-9a-fA-F]+$, the integer being the base-16 value of s without its
\* leading '#'; every other string fails with InvalidColor.
C7_ColourExactlyHexPattern ==
    colorOut.kind # "idle" =>
        IF MatchesHexPattern(colorIn)
        THEN /\ colorOut.kind = "int"
             /\ colorOut.int = DigitsValue(RemovePrefix(colorIn, <<"#">>), 0)
        ELSE colorOut.kind = "InvalidColor"

\* ---- dict_to_embed claims (data0 is the mapping dict_to_embed was given)
EmbedCalled == calls = <<"dict_to_embed">>

AbsentOrFalsy(key) == key \notin DOMAIN data0 \/ ~Truthy(data0[key])

\* C1: when title, description, colour, thumbnail, image, authorname,
\* footertext and fields are each absent or falsy, and autoauthor is
\* absent/false or no author object is supplied, dict_to_embed fails with
\* EmbeyEmbedError; the empty mapping included.
C1_NothingPopulatedIsEmptyEmbed ==
    ( /\ EmbedCalled
      /\ \A key \in {"title", "description", "colour", "thumbnail", "image",
                      "authorname", "footertext", "fields"} : AbsentOrFalsy(key)
      /\ (AbsentOrFalsy("autoauthor") \/ author = None) )
        => embedOut.kind = "EmbeyEmbedError"

HasFieldList == "fields" \in DOMAIN data0 /\ data0["fields"].t = "list"

\* C2: whenever "fields" is a sequence of odd length, dict_to_embed fails
\* with InvalidFieldArgs, whatever other keys the mapping holds or lacks.
C2_OddFieldsIsInvalidFieldArgs ==
    (EmbedCalled /\ HasFieldList /\ Len(data0["fields"].v) % 2 = 1)
        => embedOut.kind = "InvalidFieldArgs"

FieldsOf(embed) == IF "fields" \in DOMAIN embed THEN embed["fields"] ELSE <<>>

\* C3: with a truthy title and a "fields" sequence of even length 2n,
\* dict_to_embed returns an embed with that title and exactly n fields, the
\* i-th being (fields[2i], fields[2i+1]) counting from 0, in input order.
C3_TitleAndEvenFieldsSucceed ==
    ( /\ EmbedCalled
      /\ ~AbsentOrFalsy("title")
      /\ HasFieldList /\ Len(data0["fields"].v) % 2 = 0 )
        => /\ embedOut.kind = "Embed"
           /\ embedOut.embed["title"] = data0["title"]
           /\ LET given == data0["fields"].v
                  got   == FieldsOf(embedOut.embed)
              IN  /\ 2 * Len(got) = Len(given)
                  /\ \A i \in 1..Len(got) :
                         got[i] = [name |-> given[2 * i - 1], value |-> given[2 * i]]

AutoAuthorApplies ==
    /\ "autoauthor" \in DOMAIN data0 /\ Truthy(data0["autoauthor"])
    /\ author # None

\* the author block built from authorname plus the optional authoricon / authorurl
ExplicitAuthorBlock ==
    [k \in {"name"} \cup (IF AbsentOrFalsy("authoricon") THEN {} ELSE {"icon_url"})
                    \cup (IF AbsentOrFalsy("authorurl") THEN {} ELSE {"url"}) |->
        CASE k = "name"     -> data0["authorname"].v
          [] k = "icon_url" -> data0["authoricon"].v
          [] k = "url"      -> data0["authorurl"].v]

\* C10: with autoauthor true and an author object supplied, the returned
\* embed's author block is exactly the one built from authorname plus the
\* optional authoricon/authorurl when authorname is present and non-empty
\* (nothing of the author object remains), and the author object's display
\* name and avatar URL when authorname is absent or empty.
C10_ExplicitAuthorOverridesAuto ==
    (EmbedCalled /\ embedOut.kind = "Embed" /\ AutoAuthorApplies) =>
        embedOut.embed["author"] =
            IF AbsentOrFalsy("authorname")
            THEN [name |-> author.display_name, icon_url |-> author.avatar_url]
            ELSE ExplicitAuthorBlock

C10_Witness ==
    /\ EmbedCalled /\ embedOut.kind = "Embed" /\ AutoAuthorApplies
    /\ ~AbsentOrFalsy("authorname")
    /\ AbsentOrFalsy("authoricon")
    /\ ~AbsentOrFalsy("authorurl")
    /\ embedOut.embed["author"] = [name |-> "A", url |-> Url.v]

\* ---- dict_to_allowed_mentions claims
MentionFlagsPresent == \A i \in 1..Len(MentionKeys) : MentionKeys[i] \in DOMAIN data0

\* C9: the policy has everyone = data[everyonemention], roles =
\* data[rolementions], users = data[usermentions]; the call removes exactly
\* those three keys and leaves every other key as it was; and the two
\* assemblers give the same two results, and leave the same mapping,
\* whichever runs first.
C9_MentionsOneToOneAndOrderFree ==
    /\ (mentionsOut.kind # "idle" /\ MentionFlagsPresent) =>
            mentionsOut = [kind |-> "AllowedMentions",
                           everyone |-> data0["everyonemention"],
                           roles |-> data0["rolementions"],
                           users |-> data0["usermentions"]]
    /\ (calls = <<"dict_to_allowed_mentions">> /\ MentionFlagsPresent) =>
            data = [k \in DOMAIN data0 \ SeqRange(MentionKeys) |-> data0[k]]
    /\ (Len(calls) = 2 /\ MentionFlagsPresent) =>
            /\ embedOut = Outcome(dict_to_embed(data0, author))
            /\ data = [k \in DOMAIN dict_to_embed(data0, author).data \ SeqRange(MentionKeys) |->
                           data0[k]]

C9_Witness ==
    /\ calls = <<"dict_to_allowed_mentions", "dict_to_embed">>
    /\ embedOut.kind = "Embed"
    /\ "title" \in DOMAIN embedOut.embed
    /\ mentionsOut = [kind |-> "AllowedMentions", everyone |-> Bool(FALSE),
                      roles |-> Bool(FALSE), users |-> Bool(TRUE)]
    /\ data = EmptyDict

\* ---- UrlValidator claims
\* C8: the validator returns the value unchanged exactly when its scheme is
\* in the allowed set ({https} when https-only, {http, https} otherwise)
\* and its hostname is non-empty; in every other case it fails with
\* InvalidUrl carrying the value and the validator's https_only setting.
C8_UrlAcceptedOrInvalidUrl ==
    urlOut.kind # "idle" =>
        LET url     == urlparse(urlIn)
            allowed == IF validator THEN {https} ELSE {http, https}
            accepts == /\ url.kind = "ParseResult"
                       /\ url.scheme \in allowed
                       /\ url.hostname # <<>>
        IN  IF accepts
            THEN urlOut = [kind |-> "value", value |-> urlIn]
            ELSE urlOut = [kind |-> "InvalidUrl", invalid_url |-> urlIn, https_only |-> validator]

\* ---- process_message_mentions claims
\* the digit run that starts s, as long as it goes
RECURSIVE RunLength(_)
RunLength(s) == IF s # <<>> /\ Head(s) \in Digits THEN 1 + RunLength(Tail(s)) ELSE 0

\* positions where a role:<id> / user:<id> token starts, with the length of its id
TokenStarts(s) ==
    {i \in 1..Len(s) : \E type \in {role, user} : StartsWith(Drop(s, i - 1), type \o <<":">>)}

IdLengthAt(s, i) == RunLength(Drop(s, i + 4))

HasLabel(s) ==
    \E i \in 1..Len(s) : \E k \in 1..Len(LabelPairs) :
        StartsWith(Drop(s, i - 1), LabelPairs[k][1] \o <<":">> \o LabelPairs[k][2])

\* C6: a role:<id> or user:<id> token is rewritten only when its id is
\* exactly 18 digits long; a token whose digit run has any other length
\* (shorter, or longer such as 19 digits) is left untouched.  So a message
\* whose tokens all have an id of another length, and which holds no
\* everyone/here label, comes back unchanged.
C6_OtherLengthsUntouched ==
    (msgDone /\ ~HasLabel(msgIn) /\ \A i \in TokenStarts(msgIn) : IdLengthAt(msgIn, i) # IdLen)
        => msgOut = msgIn

\* ---- FlagAdder claims
AllPassed == "all" \in DOMAIN kwargs /\ kwargs["all"]

\* the declarations of one group, as they appear in the target, in order
RECURSIVE Restrict(_, _)
Restrict(seq, keep) ==
    IF seq = <<>> THEN <<>>
    ELSE IF Head(seq) \in keep THEN <<Head(seq)>> \o Restrict(Tail(seq), keep)
    ELSE Restrict(Tail(seq), keep)

RECURSIVE Flatten(_)
Flatten(seqs) == IF seqs = <<>> THEN <<>> ELSE Head(seqs) \o Flatten(Tail(seqs))

\* C4: called with all=True, every registered group is activated exactly
\* once, in group registration order, its declarations in their
\* registration order, whatever the other selectors say, and the target
\* is returned.
C4_AllActivatesEveryGroupOnce ==
    (callRet # "idle" /\ AllPassed) =>
        LET self == Adders[adder]
        IN  /\ callRet = "func"
            /\ target = Flatten([i \in 1..Len(self.groups) |-> self.kwarg_map[self.groups[i]]])

C4_Witness ==
    /\ callRet = "func" /\ AllPassed
    /\ adder = "embed_input"
    /\ \E g \in DOMAIN kwargs \ {"all"} : ~kwargs[g]
    /\ "other" \in DOMAIN kwargs /\ kwargs["other"]
    /\ Len(target) = 12

\* the selector of group g as the caller passed it, default_mode when not passed
Resolved(self, g) == IF g \in DOMAIN kwargs THEN kwargs[g] ELSE self.default_mode

\* C5: called without all=True, each group's selector resolves to the
\* value passed for it or to default_mode; exactly the groups resolving to
\* true are activated, each once, declarations in registration order, and
\* no declaration of a group resolving to false is invoked.
C5_SelectedGroupsActivated ==
    (callRet # "idle" /\ ~AllPassed) =>
        LET self == Adders[adder]
        IN  \A g \in SeqRange(self.groups) :
                Restrict(target, SeqRange(self.kwarg_map[g])) =
                    IF Resolved(self, g) THEN self.kwarg_map[g] ELSE <<>>
====
